---- MODULE Spec2Model ----
(***************************************************************************)
(* Model of layout/boxlayout.go: the vertical and horizontal box layouts.  *)
(* float32 quantities are modelled as exact rationals <<n, d>> (d > 0, in  *)
(* lowest terms), so that the divisions of Layout are computed, not        *)
(* approximated by integers.                                               *)
(***************************************************************************)
EXTENDS Integers, Sequences, FiniteSets, TLC

(* ---------------------------- bounds ----------------------------------- *)
\* longest child sequence handed to MinSize / Layout
MaxLen == 3
\* padding amounts 0 .. MaxPadding
MaxPadding == 1

(* ------------------------ rational arithmetic -------------------------- *)
Abs(n) == IF n < 0 THEN -n ELSE n

RECURSIVE GCD(_, _)
GCD(a, b) == IF b = 0 THEN a ELSE GCD(b, a % b)

Norm(n, d) ==
    LET s == IF d < 0 THEN -1 ELSE 1
        g == GCD(Abs(n), Abs(d))
    IN  <<(s * n) \div g, (s * d) \div g>>

R(n) == <<n, 1>>
Zero == R(0)
One == R(1)

RAdd(a, b) == Norm(a[1] * b[2] + b[1] * a[2], a[2] * b[2])
RSub(a, b) == Norm(a[1] * b[2] - b[1] * a[2], a[2] * b[2])
RMul(a, b) == Norm(a[1] * b[1], a[2] * b[2])
RDiv(a, b) == Norm(a[1] * b[2], a[2] * b[1])
RLt(a, b) == a[1] * b[2] < b[1] * a[2]
RLe(a, b) == a[1] * b[2] <= b[1] * a[2]
\* fyne.Max
Max(a, b) == IF RLt(b, a) THEN a ELSE b

(* --------------------------- geometry ---------------------------------- *)
NewSize(w, h) == [Width |-> w, Height |-> h]
NewPos(x, y) == [X |-> x, Y |-> y]

(* --------------------------- children ---------------------------------- *)
\* A fyne.CanvasObject: visibility, minimum size, position and size, and the
\* optional capabilities fyne.Growable and SpacerObject.
Obj(vis, sp, eh, ev, gr, gf, mw, mh) ==
    [visible |-> vis, spacer |-> sp, expandH |-> eh, expandV |-> ev,
     growable |-> gr, growFactor |-> R(gf),
     min |-> NewSize(R(mw), R(mh)),
     pos |-> NewPos(R(7), R(9)), size |-> NewSize(R(11), R(13))]

Ordinary(vis, mw, mh) == Obj(vis, FALSE, FALSE, FALSE, FALSE, 0, mw, mh)
Growable(vis, gf, mw, mh) == Obj(vis, FALSE, FALSE, FALSE, TRUE, gf, mw, mh)
Spacer(vis, eh, ev) == Obj(vis, TRUE, eh, ev, FALSE, 0, 0, 0)
GrowableSpacer(vis, gf) == Obj(vis, TRUE, TRUE, TRUE, TRUE, gf, 0, 0)

\* the children a caller may pass
Children ==
    {Ordinary(TRUE, 1, 2), Ordinary(TRUE, 3, 1)}
    \cup {Growable(TRUE, 1, 2, 2), Growable(TRUE, 3, 2, 2),
          Growable(TRUE, 1, 0, 0), Growable(TRUE, 3, 0, 0),
          Growable(TRUE, 0, 1, 1)}
    \cup {Spacer(TRUE, TRUE, TRUE), Spacer(TRUE, TRUE, FALSE),
          Spacer(TRUE, FALSE, TRUE), GrowableSpacer(TRUE, 1)}
    \cup {Growable(FALSE, 1, 2, 2), Spacer(FALSE, TRUE, TRUE)}

ObjectLists == UNION {[1..n -> Children] : n \in 0..MaxLen}

\* the container sizes a caller may pass
Sizes == {NewSize(R(1), R(6)), NewSize(R(12), R(5)), NewSize(R(5), R(12))}

\* mutation: the visibility test is dropped
VisibleAlways(child) == TRUE
Visible(child) == child.visible
Move(child, p) == [child EXCEPT !.pos = p]
Resize(child, s) == [child EXCEPT !.size = s]

isVerticalSpacer(obj) == obj.spacer /\ obj.expandV
isHorizontalSpacer(obj) == obj.spacer /\ obj.expandH

(* ------------------------- vBoxLayout.Layout --------------------------- *)
\* mutation: width and height are swapped
vChildSizeSwapped(size, height) == NewSize(height, size.Width)
\* mutation: the child is given the whole container
hChildSizeFill(size, width) == NewSize(size.Width, size.Height)

\* the size a child of the vertical box is resized to
vChildSize(size, height) == NewSize(size.Width, height)

\* the size a child of the horizontal box is resized to
hChildSize(size, width) == NewSize(width, size.Height)

\* locals of Layout before the first loop
InitLocals(objs) ==
    [objects |-> objs, spacers |-> 0, visibleObjects |-> 0,
     totalMin |-> Zero, growFactors |-> Zero]

\* weight of a growable child: GrowFactor() * max(min, 1.0)
Weight(gf, m) == RMul(gf, IF RLt(m, One) THEN One ELSE m)

\* body of the first loop of vBoxLayout.Layout
vMeasureStep(acc, i, size) ==
    LET child == acc.objects[i]
        minH == child.min.Height
    IN  IF ~Visible(child) THEN acc
        ELSE IF isVerticalSpacer(child)
        THEN [acc EXCEPT !.spacers = @ + 1]
        ELSE IF child.growable
        THEN [acc EXCEPT !.visibleObjects = @ + 1,
                         !.totalMin = RAdd(@, minH),
                         !.growFactors = RAdd(@, Weight(child.growFactor, minH))]
        ELSE [acc EXCEPT !.visibleObjects = @ + 1,
                         !.totalMin = RAdd(@, minH),
                         !.objects[i] = Resize(child, vChildSize(size, minH))]

RECURSIVE vMeasure(_, _, _)
vMeasure(acc, i, size) ==
    IF i > Len(acc.objects) THEN acc
    ELSE vMeasure(vMeasureStep(acc, i, size), i + 1, size)

\* mutation: one padding gap per child instead of one between children
ExtraGapPerChild(main, total, pad, visibleCount) ==
    RSub(RSub(main, total), RMul(pad, R(visibleCount)))

\* extra := size - totalMin - padding * (visibleObjects - 1)
Extra(main, total, pad, visibleCount) ==
    RSub(RSub(main, total), RMul(pad, R(visibleCount - 1)))

PerFactor(ex, factors) == IF RLt(Zero, factors) THEN RDiv(ex, factors) ELSE Zero

\* mutation: every spacer takes all of extra
SpacerSizeUnshared(ex, nspacers) == IF nspacers > 0 THEN ex ELSE Zero

SpacerSize(ex, nspacers) == IF nspacers > 0 THEN RDiv(ex, R(nspacers)) ELSE Zero

\* mutation: the share is not scaled by the minimum
GrownUnscaled(m, perFactor, gf) == RAdd(m, RMul(perFactor, gf))

\* final main-axis size of a growable child
Grown(m, perFactor, gf) == RAdd(m, RMul(RMul(perFactor, gf), m))

\* mutation: no padding gap after a child
AdvanceNoGap(cur, pad, len) == RAdd(cur, len)

\* cursor after an ordinary or growable child
Advance(cur, pad, len) == RAdd(cur, RAdd(pad, len))

\* body of the second loop of vBoxLayout.Layout
vPlaceStep(st, i, size, pad, hPerFactor, spSize) ==
    LET child == st.objects[i]
        height == IF child.growable
                  THEN Grown(child.min.Height, hPerFactor, child.growFactor)
                  ELSE child.min.Height
        moved == Move(child, NewPos(st.x, st.y))
    IN  IF ~Visible(child) THEN st
        ELSE IF isVerticalSpacer(child)
        THEN [st EXCEPT !.y = RAdd(@, spSize)]
        ELSE [st EXCEPT !.y = Advance(@, pad, height),
                        !.objects[i] =
                            IF child.growable
                            THEN Resize(moved, vChildSize(size, height))
                            ELSE moved]

RECURSIVE vPlace(_, _, _, _, _, _)
vPlace(st, i, size, pad, hPerFactor, spSize) ==
    IF i > Len(st.objects) THEN st
    ELSE vPlace(vPlaceStep(st, i, size, pad, hPerFactor, spSize),
                i + 1, size, pad, hPerFactor, spSize)

\* vBoxLayout.Layout: the children and the locals when it returns
vLayout(objs, s, pad) ==
    LET m == vMeasure(InitLocals(objs), 1, s)
        ex == Extra(s.Height, m.totalMin, pad, m.visibleObjects)
        hPerFactor == PerFactor(ex, m.growFactors)
        sp == SpacerSize(ex, m.spacers)
        p == vPlace([objects |-> m.objects, x |-> Zero, y |-> Zero],
                    1, s, pad, hPerFactor, sp)
    IN  [objects |-> p.objects, x |-> p.x, y |-> p.y,
         spacers |-> m.spacers, visibleObjects |-> m.visibleObjects,
         totalMin |-> m.totalMin, growFactors |-> m.growFactors,
         extra |-> ex, perFactor |-> hPerFactor, spacerSize |-> sp]

(* ------------------------- hBoxLayout.Layout --------------------------- *)
hMeasureStep(acc, i, size) ==
    LET child == acc.objects[i]
        minW == child.min.Width
    IN  IF ~Visible(child) THEN acc
        ELSE IF isHorizontalSpacer(child)
        THEN [acc EXCEPT !.spacers = @ + 1]
        ELSE IF child.growable
        THEN [acc EXCEPT !.visibleObjects = @ + 1,
                         !.totalMin = RAdd(@, minW),
                         !.growFactors = RAdd(@, Weight(child.growFactor, minW))]
        ELSE [acc EXCEPT !.visibleObjects = @ + 1,
                         !.totalMin = RAdd(@, minW),
                         !.objects[i] = Resize(child, hChildSize(size, minW))]

RECURSIVE hMeasure(_, _, _)
hMeasure(acc, i, size) ==
    IF i > Len(acc.objects) THEN acc
    ELSE hMeasure(hMeasureStep(acc, i, size), i + 1, size)

hPlaceStep(st, i, size, pad, wPerFactor, spSize) ==
    LET child == st.objects[i]
        width == IF child.growable
                 THEN Grown(child.min.Width, wPerFactor, child.growFactor)
                 ELSE child.min.Width
        moved == Move(child, NewPos(st.x, st.y))
    IN  IF ~Visible(child) THEN st
        ELSE IF isHorizontalSpacer(child)
        THEN [st EXCEPT !.x = RAdd(@, spSize)]
        ELSE [st EXCEPT !.x = Advance(@, pad, width),
                        !.objects[i] =
                            IF child.growable
                            THEN Resize(moved, hChildSize(size, width))
                            ELSE moved]

RECURSIVE hPlace(_, _, _, _, _, _)
hPlace(st, i, size, pad, wPerFactor, spSize) ==
    IF i > Len(st.objects) THEN st
    ELSE hPlace(hPlaceStep(st, i, size, pad, wPerFactor, spSize),
                i + 1, size, pad, wPerFactor, spSize)

\* hBoxLayout.Layout: the children and the locals when it returns
hLayout(objs, s, pad) ==
    LET m == hMeasure(InitLocals(objs), 1, s)
        ex == Extra(s.Width, m.totalMin, pad, m.visibleObjects)
        wPerFactor == PerFactor(ex, m.growFactors)
        sp == SpacerSize(ex, m.spacers)
        p == hPlace([objects |-> m.objects, x |-> Zero, y |-> Zero],
                    1, s, pad, wPerFactor, sp)
    IN  [objects |-> p.objects, x |-> p.x, y |-> p.y,
         spacers |-> m.spacers, visibleObjects |-> m.visibleObjects,
         totalMin |-> m.totalMin, growFactors |-> m.growFactors,
         extra |-> ex, perFactor |-> wPerFactor, spacerSize |-> sp]

(* ------------------------------ MinSize -------------------------------- *)
\* mutation: padding is added for the first child too
AddPaddingAlways(p, pending) == p

AddPadding(p, pending) == IF pending THEN p ELSE Zero

vMinStep(acc, child, pad) ==
    IF ~Visible(child) \/ isVerticalSpacer(child) THEN acc
    ELSE [minSize |-> NewSize(Max(child.min.Width, acc.minSize.Width),
                              RAdd(RAdd(acc.minSize.Height, child.min.Height),
                                   AddPadding(pad, acc.addPadding))),
          addPadding |-> TRUE]

RECURSIVE vMinSize(_, _, _, _)
vMinSize(objs, i, acc, pad) ==
    IF i > Len(objs) THEN acc.minSize
    ELSE vMinSize(objs, i + 1, vMinStep(acc, objs[i], pad), pad)

hMinStep(acc, child, pad) ==
    IF ~Visible(child) \/ isHorizontalSpacer(child) THEN acc
    ELSE [minSize |-> NewSize(RAdd(RAdd(acc.minSize.Width, child.min.Width),
                                   AddPadding(pad, acc.addPadding)),
                              Max(child.min.Height, acc.minSize.Height)),
          addPadding |-> TRUE]

RECURSIVE hMinSize(_, _, _, _)
hMinSize(objs, i, acc, pad) ==
    IF i > Len(objs) THEN acc.minSize
    ELSE hMinSize(objs, i + 1, hMinStep(acc, objs[i], pad), pad)

MinInit == [minSize |-> NewSize(Zero, Zero), addPadding |-> FALSE]

(* ------------------------------ state ---------------------------------- *)
VARIABLES
    objects,        \* the children, in the caller's order
    before,         \* the children as they were when the call was made
    padding,        \* the value paddingFunc() returns
    pc,             \* "idle", or the call that has returned
    size,           \* the size argument of Layout
    spacers, visibleObjects, totalMin, growFactors,
    extra, perFactor, spacerSize,   \* locals of Layout
    x, y,           \* the placement cursor when Layout returns
    minSize         \* the result of MinSize

vars == <<objects, before, padding, pc, size, spacers, visibleObjects,
          totalMin, growFactors, extra, perFactor, spacerSize, x, y, minSize>>

layoutLocals == <<size, spacers, visibleObjects, totalMin, growFactors,
                  extra, perFactor, spacerSize, x, y>>

Init ==
    /\ objects \in ObjectLists
    /\ before = objects
    /\ padding \in {R(p) : p \in 0..MaxPadding}
    /\ pc = "idle"
    /\ size = NewSize(Zero, Zero)
    /\ spacers = 0
    /\ visibleObjects = 0
    /\ totalMin = Zero
    /\ growFactors = Zero
    /\ extra = Zero
    /\ perFactor = Zero
    /\ spacerSize = Zero
    /\ x = Zero
    /\ y = Zero
    /\ minSize = NewSize(Zero, Zero)

Returned(r, s) ==
    /\ size' = s
    /\ spacers' = r.spacers
    /\ visibleObjects' = r.visibleObjects
    /\ totalMin' = r.totalMin
    /\ growFactors' = r.growFactors
    /\ extra' = r.extra
    /\ perFactor' = r.perFactor
    /\ spacerSize' = r.spacerSize
    /\ objects' = r.objects
    /\ x' = r.x
    /\ y' = r.y

VLayout ==
    /\ pc = "idle"
    /\ \E s \in Sizes : Returned(vLayout(objects, s, padding), s)
    /\ pc' = "vLayout"
    /\ UNCHANGED <<before, padding, minSize>>

HLayout ==
    /\ pc = "idle"
    /\ \E s \in Sizes : Returned(hLayout(objects, s, padding), s)
    /\ pc' = "hLayout"
    /\ UNCHANGED <<before, padding, minSize>>

VMinSize ==
    /\ pc = "idle"
    /\ minSize' = vMinSize(objects, 1, MinInit, padding)
    /\ pc' = "vMinSize"
    /\ UNCHANGED <<objects, before, padding, layoutLocals>>

HMinSize ==
    /\ pc = "idle"
    /\ minSize' = hMinSize(objects, 1, MinInit, padding)
    /\ pc' = "hMinSize"
    /\ UNCHANGED <<objects, before, padding, layoutLocals>>

Next == VLayout \/ HLayout \/ VMinSize \/ HMinSize

Spec == Init /\ [][Next]_vars

(* ----------------------- vocabulary of the properties ------------------ *)
Vertical == pc \in {"vLayout", "vMinSize"}
LayoutDone == pc \in {"vLayout", "hLayout"}
MinSizeDone == pc \in {"vMinSize", "hMinSize"}

\* spacer along the layout axis
AxisSpacer(o) == o.spacer /\ (IF Vertical THEN o.expandV ELSE o.expandH)
\* visible and not a spacer along the layout axis
Counted(o) == o.visible /\ ~AxisSpacer(o)
VisibleSpacer(o) == o.visible /\ AxisSpacer(o)

Main(sz) == IF Vertical THEN sz.Height ELSE sz.Width
Cross(sz) == IF Vertical THEN sz.Width ELSE sz.Height
MainPos(o) == IF Vertical THEN o.pos.Y ELSE o.pos.X
CrossPos(o) == IF Vertical THEN o.pos.X ELSE o.pos.Y
Cursor == IF Vertical THEN y ELSE x

Idx == 1..Len(objects)
CountedIdx == {i \in Idx : Counted(objects[i])}
SpacerIdx == {i \in Idx : VisibleSpacer(objects[i])}
GrowIdx == {i \in CountedIdx : objects[i].growable}

\* sum of f[i] over the indices in S
RECURSIVE SumOver(_, _)
SumOver(S, f) ==
    IF S = {} THEN Zero
    ELSE LET i == CHOOSE j \in S : TRUE
         IN  RAdd(f[i], SumOver(S \ {i}, f))

\* greatest f[i] over the indices in a non-empty S
MaxOver(S, f) == CHOOSE v \in {f[i] : i \in S} : \A j \in S : RLe(f[j], v)

MainMins == [i \in Idx |-> Main(objects[i].min)]
CrossMins == [i \in Idx |-> Cross(objects[i].min)]
MainSizes == [i \in Idx |-> Main(objects[i].size)]

\* leftover space as the specification defines it
SpecExtra ==
    RSub(RSub(Main(size), SumOver(CountedIdx, MainMins)),
         RMul(padding, R(Cardinality(CountedIdx) - 1)))

\* total weight as the specification defines it
SpecWeights ==
    [i \in Idx |-> RMul(objects[i].growFactor,
                        Max(Main(objects[i].min), One))]
SpecTotalWeight == SumOver(GrowIdx, SpecWeights)

NoSpacerIn(S) == \A n \in S : ~VisibleSpacer(objects[n])
\* i and j are consecutive among the visible non-spacer children
Consecutive(i, j) ==
    /\ i \in CountedIdx /\ j \in CountedIdx /\ i < j
    /\ \A n \in CountedIdx : ~(i < n /\ n < j)

\* C2: after Layout the visible non-spacer children stand end to end in the
\* given order: cross-axis coordinate 0, the first at main-axis 0 when no
\* visible spacer precedes it, and each next one (no visible spacer in
\* between) at the previous one's position + final size + one padding.
C2_EndToEnd ==
    LayoutDone =>
        /\ \A i \in CountedIdx : CrossPos(objects[i]) = Zero
        /\ \A i \in CountedIdx :
              (\A n \in CountedIdx : i <= n) /\ NoSpacerIn(1..(i - 1))
                  => MainPos(objects[i]) = Zero
        /\ \A i, j \in CountedIdx :
              Consecutive(i, j) /\ NoSpacerIn((i + 1)..(j - 1))
                  => MainPos(objects[j]) =
                        RAdd(RAdd(MainPos(objects[i]), MainSizes[i]), padding)

C2_Witness ==
    /\ LayoutDone
    /\ RLt(Zero, padding)
    /\ \E i, j \in CountedIdx :
          /\ Consecutive(i, j) /\ j = i + 2
          /\ ~objects[i + 1].visible
          /\ objects[i].growable /\ MainSizes[i] # MainMins[i]

(* ------------------------------- C3 ------------------------------------ *)
\* C3: after Layout with container size S every visible child that is not a
\* spacer along the layout axis has cross-axis size equal to S's cross-axis
\* dimension, whatever its own minimum and whatever the leftover space.
C3_CrossFill ==
    LayoutDone =>
        \A i \in CountedIdx : Cross(objects[i].size) = Cross(size)

C3_Witness ==
    /\ LayoutDone
    /\ RLt(extra, Zero)
    /\ \E i, j \in CountedIdx :
          /\ objects[i].growable /\ ~objects[j].growable
          /\ Cross(objects[i].min) # Cross(size)
          /\ Cross(objects[j].min) # Cross(size)

(* ------------------------------- C4 ------------------------------------ *)
Quarter(r, n) == RDiv(RMul(R(n), r), R(4))

\* C4: when the growable children laid out are two visible ones with grow
\* factors 1 and 3 and the same minimum main-axis size m, the first ends
\* with main-axis size m + extra/4 and the second with m + 3*extra/4, for
\* every m and every extra.
C4_Proportional ==
    LayoutDone =>
        \A i, j \in GrowIdx :
            /\ i < j /\ GrowIdx = {i, j}
            /\ objects[i].growFactor = R(1) /\ objects[j].growFactor = R(3)
            /\ MainMins[i] = MainMins[j]
            => /\ MainSizes[i] = RAdd(MainMins[i], Quarter(SpecExtra, 1))
               /\ MainSizes[j] = RAdd(MainMins[j], Quarter(SpecExtra, 3))

(* ------------------------------- C5 ------------------------------------ *)
\* C5: a visible growable child with a positive grow factor and a minimum
\* main-axis size of 0 is not starved: whenever extra is positive its final
\* main-axis size is strictly greater than 0.
C5_NotStarved ==
    LayoutDone =>
        \A i \in GrowIdx :
            /\ RLt(Zero, objects[i].growFactor)
            /\ MainMins[i] = Zero
            /\ RLt(Zero, SpecExtra)
            => RLt(Zero, MainSizes[i])

(* ------------------------------- C6 ------------------------------------ *)
\* the children and locals Layout yields for another child sequence
LayoutOf(objs) ==
    IF Vertical THEN vLayout(objs, size, padding)
    ELSE hLayout(objs, size, padding)

SizesOf(objs) == [i \in 1..Len(objs) |-> objs[i].size]
NotSpacer(o) == ~VisibleSpacer(o)

\* main-axis position of a child that follows the children in Before,
\* each visible spacer among them advancing the cursor by step
PlaceAfter(Before, step) ==
    RAdd(RAdd(SumOver(Before \cap CountedIdx, MainSizes),
              RMul(padding, R(Cardinality(Before \cap CountedIdx)))),
         RMul(R(Cardinality(Before \cap SpacerIdx)), step))

\* C6: with n >= 1 visible spacers each one advances the cursor by extra / n
\* and adds no padding gap: a child after j visible spacers stands
\* j * extra / n beyond its end-to-end position, and no child's size
\* differs from the size it gets when the spacers are absent.
C6_SpacerShare ==
    LayoutDone /\ SpacerIdx # {} =>
        LET step == RDiv(SpecExtra, R(Cardinality(SpacerIdx)))
        IN  /\ \A i \in CountedIdx :
                  MainPos(objects[i]) = PlaceAfter(1..(i - 1), step)
            /\ Cursor = PlaceAfter(Idx, step)
            /\ SizesOf(SelectSeq(objects, NotSpacer)) =
                  SizesOf(LayoutOf(SelectSeq(before, NotSpacer)).objects)

C6_Witness ==
    /\ LayoutDone
    /\ Cardinality(SpacerIdx) = 2
    /\ RLt(Zero, padding)
    /\ SpecExtra \notin {Zero, One}
    /\ \E i \in CountedIdx : \E n \in SpacerIdx : n < i

(* ------------------------------- C7 ------------------------------------ *)
\* C7: the objects are always displayed at their main-axis MinSize: after
\* Layout every visible non-spacer object's main-axis size equals its own
\* minimum main-axis size.
C7_AlwaysMinSize ==
    LayoutDone => \A i \in CountedIdx : MainSizes[i] = MainMins[i]

\* The part of C7 the code keeps: a visible non-spacer object that is not
\* Growable has its own minimum main-axis size as its main-axis size.
C7_OrdinaryAtMinSize ==
    LayoutDone =>
        \A i \in CountedIdx \ GrowIdx : MainSizes[i] = MainMins[i]

C7_OrdinaryWitness ==
    /\ LayoutDone
    /\ RLt(Zero, extra)
    /\ \E i \in CountedIdx \ GrowIdx : MainMins[i] # Main(size)
    /\ \E j \in GrowIdx : MainSizes[j] # MainMins[j]

(* ------------------------------- C8 ------------------------------------ *)
\* C8: Layout moves and resizes only children that are visible and not a
\* spacer along the layout axis: every invisible child and every spacer
\* (also one that declares a grow factor) keeps its position and size, and
\* no child's visibility nor the order of the children changes.
C8_Frame ==
    LayoutDone =>
        /\ Len(objects) = Len(before)
        /\ \A i \in Idx :
              /\ [objects[i] EXCEPT !.pos = before[i].pos,
                                    !.size = before[i].size] = before[i]
              /\ ~Counted(objects[i]) => objects[i] = before[i]

C8_Witness ==
    /\ LayoutDone
    /\ \E i, j, k \in Idx :
          /\ ~objects[i].visible
          /\ VisibleSpacer(objects[j]) /\ objects[j].growable
          /\ Counted(objects[k])
          /\ objects[k].pos # before[k].pos
          /\ objects[k].size # before[k].size

(* ------------------------------- C9 ------------------------------------ *)
Ungrowable(objs) == [i \in 1..Len(objs) |-> [objs[i] EXCEPT !.growable = FALSE]]

SpacersOnly ==
    /\ SpacerIdx # {}
    /\ \A i \in GrowIdx : SpecWeights[i] = Zero
GrowablesOnly ==
    /\ SpacerIdx = {}
    /\ RLt(Zero, SpecTotalWeight)
    /\ \A i \in GrowIdx : RLe(One, MainMins[i])

C10_WitnessSpacers ==
    /\ LayoutDone
    /\ Cardinality(CountedIdx) >= 1
    /\ SpacersOnly
    /\ RLt(SpecExtra, Zero)
    /\ \E i \in GrowIdx : TRUE

====
